---- MODULE Spec2Model ----
(***************************************************************************)
(* Model of the demo service: the log-batching buffer and the OTLP payload  *)
(* of src/src/lib/logger.ts, the graceful shutdown of src/src/index.ts, and *)
(* the handlers of the failures, llm, weather, jokes, quotes and sdk-test   *)
(* routes.                                                                  *)
(*                                                                          *)
(* A log entry is represented by the number of the write that produced it   *)
(* (1 for the first write, 2 for the second, ...), so "A was written before *)
(* B" is A < B.  The event loop is modelled by one action per callback:     *)
(* everything a callback does between two awaits is one atomic step.  A     *)
(* handler's span calls are recorded in the order it makes them.            *)
(***************************************************************************)
EXTENDS Integers, Sequences, FiniteSets, TLC

\* ------------------------------------------------------------------ bounds
\* Number of log writes the application itself makes (the shutdown handler's
\* own two log lines come on top).
MaxWrites == 7
\* The same, where the signal handlers run too.
MaxShutdownWrites == 2
\* The same, where liveness is checked.
MaxFairWrites == 3
\* Number of SIGINT/SIGTERM deliveries.
MaxSignals == 2
\* Log lines the weather, jokes and quotes handlers may write in all.
MaxRouteWrites == 6
\* Log lines of the sdk-test module: one at load, one per /sdk-test request.
MaxSdkWrites == 3
\* Entries of a batch handed to formatOtlpPayload.
MaxOtlpBatch == 2
\* Requests of the traced routes held at a time, running or answered.
MaxRequests == 2
\* The source sets MAX_BATCH_SIZE to 50 and compares the buffer length with the
\* literal 500 before re-queueing.  Both are scaled down here so that a size
\* flush, a re-queue at the limit and a dropped batch are all reached; every
\* formula below is stated in terms of MAX_BATCH_SIZE and REQUEUE_LIMIT, never
\* of the scaled numbers.
ScaledBatch == 3
ScaledLimit == 4

MAX_BATCH_SIZE == ScaledBatch
REQUEUE_LIMIT == ScaledLimit

NULL == "null"

\* ------------------------------------------------------------------- state
VARIABLES
  logBuffer,      \* logger.ts: logBuffer, the entries waiting to be flushed
  flushTimer,     \* logger.ts: flushTimer, NULL or "set" (a timer handle)
  timers,         \* number of flush timers pending in the event loop
  inflight,       \* the batches of the exports that have not finished yet
  exported,       \* history: the entries delivered by a successful request
  exportInverted, \* history: a successful request carried an entry written
                  \*   before an entry that an earlier request had delivered
  dropped,        \* history: entries discarded at the re-queue limit
  nWritten,       \* number of entries written so far (the last entry's id)
  writesLeft,     \* writes the application may still make (the model's bound)
  ingestStable,   \* environment: TRUE once the ingest endpoint accepts everything
  overlap,        \* history: two exports were in flight at the same time
  sd,             \* index.ts: the shutdown() invocations, one record per signal
  server,         \* index.ts: the HTTP server, "listening" | "closing" | "closed"
  exited,         \* process.exit(0) has been called
  lastOp,         \* history: what the last step did
  fl,             \* failures.ts: one POST /api/demo/failures request
  llmReq,         \* llm-mock.ts: one POST /api/demo/llm request
  weatherReq,     \* weather route: one POST /api/demo/weather request
  jokesReq,       \* jokes.ts: one POST /api/demo/jokes request
  quotesReq,      \* quotes route: one POST /api/demo/quotes request
  sdk,            \* sdk-test routes: sdkInitialized and the two handlers
  otlp            \* logger.ts: a batch handed to formatOtlpPayload

loggerVars == <<logBuffer, flushTimer, timers, inflight, exported,
                exportInverted, dropped, nWritten, writesLeft, ingestStable,
                overlap, sd, server, exited, lastOp>>

routeVars == <<llmReq, weatherReq, jokesReq, quotesReq, sdk, otlp>>

vars == <<loggerVars, fl, routeVars>>

\* --------------------------------------------------------------- helpers
Min(a, b) == IF a < b THEN a ELSE b

\* Array.prototype.splice(0, n): the removed front and what is left.
SpliceFront(s, n) == SubSeq(s, 1, Min(n, Len(s)))
SpliceRest(s, n) == SubSeq(s, Min(n, Len(s)) + 1, Len(s))

Range(s) == {s[i] : i \in 1..Len(s)}

\* The logger module's mutable state, as one record the functions transform.
\* awaited is the batch the last flushLogs call sent (<<>> when it sent none).
Cur ==
  [buf |-> logBuffer, flushTimer |-> flushTimer, timers |-> timers,
   inflight |-> inflight, awaited |-> <<>>]

Apply(st) ==
  /\ logBuffer' = st.buf
  /\ flushTimer' = st.flushTimer
  /\ timers' = st.timers
  /\ inflight' = st.inflight
  /\ overlap' = (overlap \/ Cardinality(st.inflight) >= 2)

\* ------------------------------------------------------------ logger.ts
\* flushLogs without its guard for the empty buffer (mutant).
flushLogs_noEmptyCheck(st) ==
  [st EXCEPT !.buf = SpliceRest(st.buf, MAX_BATCH_SIZE),
             !.inflight = @ \cup {SpliceFront(st.buf, MAX_BATCH_SIZE)},
             !.awaited = SpliceFront(st.buf, MAX_BATCH_SIZE)]

\* flushLogs up to its first await: return on an empty buffer, else splice the
\* batch off the front and start the fetch.
flushLogs(st) ==
  IF st.buf = <<>>
  THEN [st EXCEPT !.awaited = <<>>]
  ELSE [st EXCEPT !.buf = SpliceRest(st.buf, MAX_BATCH_SIZE),
                  !.inflight = @ \cup {SpliceFront(st.buf, MAX_BATCH_SIZE)},
                  !.awaited = SpliceFront(st.buf, MAX_BATCH_SIZE)]

\* scheduleFlush: setTimeout only when no timer is recorded.
scheduleFlush(st) ==
  IF st.flushTimer = NULL
  THEN [st EXCEPT !.flushTimer = "set", !.timers = @ + 1]
  ELSE st

\* write that flushes only above MAX_BATCH_SIZE (mutant).
write_flushAbove(st, log) ==
  LET pushed == [st EXCEPT !.buf = Append(@, log)]
  IN IF Len(pushed.buf) > MAX_BATCH_SIZE
     THEN flushLogs(pushed)
     ELSE scheduleFlush(pushed)

\* createOtlpDestination().write for a parseable entry.
write(st, log) ==
  LET pushed == [st EXCEPT !.buf = Append(@, log)]
  IN IF Len(pushed.buf) >= MAX_BATCH_SIZE
     THEN flushLogs(pushed)
     ELSE scheduleFlush(pushed)

\* flushPendingLogs up to its await: clearTimeout, then flushLogs.
flushPendingLogs(st) ==
  LET cleared == IF st.flushTimer # NULL
                 THEN [st EXCEPT !.flushTimer = NULL, !.timers = @ - 1]
                 ELSE st
  IN flushLogs(cleared)

\* Mutants of requeue: no limit, the limit off by one, push instead of unshift.
requeue_noLimit(buf, logs) == logs \o buf

requeue_offByOne(buf, logs) ==
  IF Len(buf) <= REQUEUE_LIMIT THEN logs \o buf ELSE buf

requeue_atBack(buf, logs) ==
  IF Len(buf) < REQUEUE_LIMIT THEN buf \o logs ELSE buf

\* The failure branches of flushLogs: unshift the batch unless the buffer has
\* reached the limit.
requeue(buf, logs) ==
  IF Len(buf) < REQUEUE_LIMIT THEN logs \o buf ELSE buf

\* ------------------------------------------------------------- index.ts
\* shutdown() without the await (mutant).
shutdownStep_noAwait(settledNow) == "closeCalled"

\* shutdown() awaits flushPendingLogs() before it calls server.close: the
\* invocation goes on at once only when the flush promise is already settled.
shutdownStep(settledNow) ==
  IF settledNow THEN "closeCalled" ELSE "awaitFlush"

\* server.close(cb): the server stops listening; cb runs on its 'close' event.
serverClose(srv) == IF srv = "listening" THEN "closing" ELSE srv

\* The invocations awaiting batch b go on once flushLogs has finished with b.
Resume(b, result) ==
  [i \in DOMAIN sd |->
     IF sd[i].pc = "awaitFlush" /\ sd[i].batch = b
     THEN [sd[i] EXCEPT !.pc = "closeCalled", !.settled = TRUE, !.result = result]
     ELSE sd[i]]

ServerAfter(sdv) ==
  IF \E i \in DOMAIN sdv : sdv[i].pc = "closeCalled"
  THEN serverClose(server) ELSE server

\* ---------------------------------------------------------- failures.ts
SCENARIOS ==
  <<"timeout", "rate-limit", "context-overflow", "invalid-response",
    "hallucination", "auth-failure">>

\* What a client can put in the body's scenario field: one of the six, no
\* field at all, or any other JSON value.
ScenarioInputs == Range(SCENARIOS) \cup {"absent", "unknown"}

\* What a client can put in the body's prompt field: no field (the default
\* applies), a string, JSON null, or another JSON value.
PromptInputs == {"absent", "string", "null", "other"}

\* Lines 33-36: a missing or unknown scenario is replaced by SCENARIOS[pick].
pickScenario(requested, pick) ==
  IF requested = "absent" \/ requested \notin Range(SCENARIOS)
  THEN SCENARIOS[pick]
  ELSE requested

\* countTokens(prompt) reads prompt.length: a TypeError for null, a number
\* (possibly NaN) for everything else.
countTokensThrows(prompt) == prompt = "null"

\* simulateScenario: the fields of the ScenarioResult the handler reads.
simulateScenario(scenario) ==
  IF scenario = "hallucination"
  THEN [success |-> TRUE, error |-> FALSE, warning |-> TRUE, data |-> TRUE]
  ELSE [success |-> FALSE, error |-> TRUE, warning |-> FALSE, data |-> FALSE]

\* Line 103.
httpStatus(result, scenario) ==
  IF result.error
  THEN (IF scenario = "auth-failure" THEN 401
        ELSE IF scenario = "rate-limit" THEN 429 ELSE 500)
  ELSE 200

\* Lines 105-113: the JSON of the try block's response.
respond(result, scenario) ==
  [status |-> httpStatus(result, scenario),
   success |-> ~result.error,
   scenario |-> scenario,
   error |-> result.error,
   warning |-> result.warning,
   confidenceScore |-> result.warning,
   data |-> result.data]

\* Lines 118-123: the JSON of the catch block's response.
respondCaught(scenario) ==
  [status |-> 500, success |-> FALSE, scenario |-> scenario, error |-> TRUE,
   warning |-> FALSE, confidenceScore |-> FALSE, data |-> FALSE]

NoResult == [success |-> FALSE, error |-> FALSE, warning |-> FALSE, data |-> FALSE]
NoResponse ==
  [status |-> 0, success |-> FALSE, scenario |-> "none", error |-> FALSE,
   warning |-> FALSE, confidenceScore |-> FALSE, data |-> FALSE]

FlIdle ==
  [pc |-> "idle", requested |-> "none", prompt |-> "none", scenario |-> "none",
   spans |-> <<>>, result |-> NoResult, response |-> NoResponse]

Started(name) == <<"start", name>>
Status(name, code) == <<"status", name, code>>
Ended(name) == <<"end", name>>

\* Lines 92-97 and 105-113, then the finally of line 125.
Finish(f, result) ==
  [f EXCEPT !.pc = "done",
            !.result = result,
            !.response = respond(result, f.scenario),
            !.spans = @ \o <<Status("failures.simulate",
                                    IF result.error THEN "ERROR" ELSE "OK"),
                             <<"respond">>,
                             Ended("failures.simulate")>>]

\* The request arrives: lines 27-55, up to the await of the validate step;
\* when countTokens throws, the catch and the finally run at once.
FailuresRequest(requested, prompt, pick) ==
  /\ fl.pc = "idle"
  /\ LET scenario == pickScenario(requested, pick)
         begun == <<Started("failures.simulate"),
                    Started("failures.validate-input")>>
     IN fl' = IF countTokensThrows(prompt)
              THEN [fl EXCEPT !.pc = "done",
                              !.requested = requested,
                              !.prompt = prompt,
                              !.scenario = scenario,
                              !.response = respondCaught(scenario),
                              !.spans = begun \o
                                <<Status("failures.simulate", "ERROR"),
                                  <<"respond">>,
                                  Ended("failures.simulate")>>]
              ELSE [fl EXCEPT !.pc = "validating",
                              !.requested = requested,
                              !.prompt = prompt,
                              !.scenario = scenario,
                              !.spans = begun]
  /\ UNCHANGED <<loggerVars, routeVars>>

\* Lines 56-69: the validate span ends, the llm-call span starts and
\* simulateScenario runs up to its await.
FailuresValidated ==
  /\ fl.pc = "validating"
  /\ fl' = [fl EXCEPT !.pc = "simulating",
                      !.spans = @ \o <<Status("failures.validate-input", "OK"),
                                       Ended("failures.validate-input"),
                                       Started("failures.llm-call")>>]
  /\ UNCHANGED <<loggerVars, routeVars>>

\* The simulate* function goes on after its await: it sets the llm-call
\* span's status and ends it; the handler then either starts the post-process
\* span (lines 72-86) or answers (lines 92-113, 125).
FailuresSimulated ==
  /\ fl.pc = "simulating"
  /\ LET result == simulateScenario(fl.scenario)
         called == [fl EXCEPT !.spans = @ \o
                      <<Status("failures.llm-call",
                               IF result.success THEN "OK" ELSE "ERROR"),
                        Ended("failures.llm-call")>>]
     IN fl' = IF result.success
              THEN [called EXCEPT !.pc = "postprocessing",
                                  !.result = result,
                                  !.spans = @ \o
                                    <<Started("failures.post-process")>>]
              ELSE Finish(called, result)
  /\ UNCHANGED <<loggerVars, routeVars>>

\* Lines 87-113 and 125, after the await of the post-process step.
FailuresPostProcessed ==
  /\ fl.pc = "postprocessing"
  /\ fl' = Finish([fl EXCEPT !.spans = @ \o
                     <<Status("failures.post-process", "OK"),
                       Ended("failures.post-process")>>],
                  fl.result)
  /\ UNCHANGED <<loggerVars, routeVars>>

\* The next request.
FailuresReset ==
  /\ fl.pc = "done"
  /\ fl' = FlIdle
  /\ UNCHANGED <<loggerVars, routeVars>>

NextFailures ==
  \/ \E requested \in ScenarioInputs, prompt \in PromptInputs,
        pick \in 1..Len(SCENARIOS) : FailuresRequest(requested, prompt, pick)
  \/ FailuresValidated
  \/ FailuresSimulated
  \/ FailuresPostProcessed
  \/ FailuresReset


\* ------------------------------------------------- the traced handlers
\* One request of a traced route: where the handler is, what the body's
\* field was, the span calls and the response so far, and whether the catch
\* block has run.
RouteIdle ==
  [pc |-> "idle", input |-> "none", spans |-> <<>>, status |-> 0,
   success |-> FALSE, caught |-> FALSE]

\* catch without the finally (mutant).
Caught_noFinally(r, root) ==
  [r EXCEPT !.pc = "done", !.status = 500, !.success = FALSE,
            !.caught = TRUE,
            !.spans = @ \o <<Status(root, "ERROR"), <<"respond">>>>]

\* The catch block of a traced handler and its finally: the root span is set
\* to ERROR, the handler answers 500 with success=false, the root span ends.
Caught(r, root) ==
  [r EXCEPT !.pc = "done", !.status = 500, !.success = FALSE,
            !.caught = TRUE,
            !.spans = @ \o <<Status(root, "ERROR"), <<"respond">>,
                             Ended(root)>>]

\* The end of the try block and the finally: res.json answers 200 with
\* success=true, the root span ends.
Answered(r, root) ==
  [r EXCEPT !.pc = "done", !.status = 200, !.success = TRUE,
            !.spans = @ \o <<<<"respond">>, Ended(root)>>]

\* --------------------------------------------------------- llm-mock.ts
\* Lines 47-78: llm.generate and llm.tokenize start; countTokens(prompt)
\* reads prompt.length, which throws for null.
LlmRequest(prompt) ==
  /\ llmReq.pc = "idle"
  /\ LET begun == [RouteIdle EXCEPT
                     !.input = prompt,
                     !.spans = <<Started("llm.generate"),
                                 Started("llm.tokenize")>>]
     IN llmReq' = IF countTokensThrows(prompt)
                  THEN Caught(begun, "llm.generate")
                  ELSE [begun EXCEPT !.pc = "tokenizing"]
  /\ UNCHANGED <<loggerVars, fl, weatherReq, jokesReq, quotesReq, sdk, otlp>>

\* Lines 80-98.
LlmTokenized ==
  /\ llmReq.pc = "tokenizing"
  /\ llmReq' = [llmReq EXCEPT !.pc = "inferring",
                              !.spans = @ \o <<Status("llm.tokenize", "OK"),
                                               Ended("llm.tokenize"),
                                               Started("llm.infer")>>]
  /\ UNCHANGED <<loggerVars, fl, weatherReq, jokesReq, quotesReq, sdk, otlp>>

\* Lines 100-111.
LlmInferred ==
  /\ llmReq.pc = "inferring"
  /\ llmReq' = [llmReq EXCEPT !.pc = "detokenizing",
                              !.spans = @ \o <<Status("llm.infer", "OK"),
                                               Ended("llm.infer"),
                                               Started("llm.detokenize")>>]
  /\ UNCHANGED <<loggerVars, fl, weatherReq, jokesReq, quotesReq, sdk, otlp>>

\* Lines 113-172: the parent span is set to OK, then the argument of
\* res.json is built; prompt.substring exists for strings only, so any other
\* prompt throws there and the catch answers.
LlmDetokenized ==
  /\ llmReq.pc = "detokenizing"
  /\ LET ended == [llmReq EXCEPT !.spans = @ \o
                     <<Status("llm.detokenize", "OK"),
                       Ended("llm.detokenize"),
                       Status("llm.generate", "OK")>>]
     IN llmReq' = IF llmReq.input \in {"absent", "string"}
                  THEN Answered(ended, "llm.generate")
                  ELSE Caught(ended, "llm.generate")
  /\ UNCHANGED <<loggerVars, fl, weatherReq, jokesReq, quotesReq, sdk, otlp>>

\* ------------------------------------------- weather, jokes, quotes
\* The log lines one request of these routes may write (the model's bound
\* is reserved when the request arrives).
LinesPerRequest == 3

\* n calls of log.info / log.debug / log.error in a row: each is one write()
\* of the logger's destination.
RECURSIVE writeAll(_, _, _)
writeAll(st, first, n) ==
  IF n = 0 THEN st ELSE writeAll(write(st, first), first + 1, n - 1)

Logs(n) ==
  /\ Apply(writeAll(Cur, nWritten + 1, n))
  /\ nWritten' = nWritten + n
  /\ lastOp' = "routeLog"
  /\ UNCHANGED <<exported, exportInverted, dropped, ingestStable, sd, server,
                 exited>>

\* What the external API's answer can be: the fetch rejects, or it resolves
\* with a non-OK or an OK status.
FetchOutcomes == {"reject", "notOk", "ok"}

\* What the body of an OK answer can be: not JSON, JSON without the fields
\* the handler reads first, JSON without a field it reads after the span
\* status is set, or the documented shape.
BodyKinds == {"invalidJson", "empty", "partial", "full"}

\* Lines before the await of fetch: log.info, the root span (and the quotes
\* route's child span), log.debug (written only when the logger's level is
\* debug, i.e. in development).
Begin(dev) ==
  /\ ~exited
  /\ writesLeft >= LinesPerRequest
  /\ writesLeft' = writesLeft - LinesPerRequest
  /\ Logs(IF dev THEN 2 ELSE 1)

Begun(root, more) ==
  [RouteIdle EXCEPT !.pc = "fetching",
                    !.spans = <<Started(root)>> \o more]

\* weather: lines 34-58.
WeatherRequest(dev) ==
  /\ weatherReq.pc = "idle"
  /\ Begin(dev)
  /\ weatherReq' = Begun("weather.fetch", <<>>)
  /\ UNCHANGED <<fl, llmReq, jokesReq, quotesReq, sdk, otlp>>

\* weather: lines 60-64, or the catch (which here also calls log.error) and
\* the finally of lines 111-126.
WeatherFetched(outcome) ==
  /\ weatherReq.pc = "fetching"
  /\ IF outcome = "ok"
     THEN /\ weatherReq' = [weatherReq EXCEPT !.pc = "parsing"]
          /\ UNCHANGED loggerVars
     ELSE /\ weatherReq' = Caught(weatherReq, "weather.fetch")
          /\ Logs(1)
          /\ UNCHANGED writesLeft
  /\ UNCHANGED <<fl, llmReq, jokesReq, quotesReq, sdk, otlp>>

\* weather: lines 64-126.  response.json() rejects, or current_condition[0]
\* / nearest_area[0] is missing (lines 65-70), or weatherDesc is missing and
\* line 91 throws after the span was set to OK, or the handler answers 200.
WeatherParsed(body) ==
  /\ weatherReq.pc = "parsing"
  /\ weatherReq' =
       IF body \in {"invalidJson", "empty"}
       THEN Caught(weatherReq, "weather.fetch")
       ELSE LET ok == [weatherReq EXCEPT !.spans = @ \o
                         <<Status("weather.fetch", "OK")>>]
            IN IF body = "partial"
               THEN Caught(ok, "weather.fetch")
               ELSE Answered(ok, "weather.fetch")
  /\ Logs(1)
  /\ UNCHANGED writesLeft
  /\ UNCHANGED <<fl, llmReq, jokesReq, quotesReq, sdk, otlp>>

\* jokes.ts: lines 21-41.
JokesRequest(dev) ==
  /\ jokesReq.pc = "idle"
  /\ Begin(dev)
  /\ jokesReq' = Begun("jokes.fetch", <<>>)
  /\ UNCHANGED <<fl, llmReq, weatherReq, quotesReq, sdk, otlp>>

\* jokes.ts: lines 43-47, or the catch and finally of lines 76-91.
JokesFetched(outcome) ==
  /\ jokesReq.pc = "fetching"
  /\ IF outcome = "ok"
     THEN /\ jokesReq' = [jokesReq EXCEPT !.pc = "parsing"]
          /\ UNCHANGED loggerVars
     ELSE /\ jokesReq' = Caught(jokesReq, "jokes.fetch")
          /\ Logs(1)
          /\ UNCHANGED writesLeft
  /\ UNCHANGED <<fl, llmReq, weatherReq, quotesReq, sdk, otlp>>

\* jokes.ts: lines 47-91.  Every read that can throw (joke.id of null,
\* joke.joke.length of undefined) comes before the span is set to OK.
JokesParsed(body) ==
  /\ jokesReq.pc = "parsing"
  /\ jokesReq' =
       IF body = "full"
       THEN Answered([jokesReq EXCEPT !.spans = @ \o
                        <<Status("jokes.fetch", "OK")>>], "jokes.fetch")
       ELSE Caught(jokesReq, "jokes.fetch")
  /\ Logs(1)
  /\ UNCHANGED writesLeft
  /\ UNCHANGED <<fl, llmReq, weatherReq, quotesReq, sdk, otlp>>

\* quotes: lines 251-278; the child span quotes.api_call starts before the
\* fetch.
QuotesRequest(dev) ==
  /\ quotesReq.pc = "idle"
  /\ Begin(dev)
  /\ quotesReq' = Begun("quotes.fetch", <<Started("quotes.api_call")>>)
  /\ UNCHANGED <<fl, llmReq, weatherReq, jokesReq, sdk, otlp>>

\* quotes: lines 280-284, or the catch and finally of lines 333-348.
QuotesFetched(outcome) ==
  /\ quotesReq.pc = "fetching"
  /\ IF outcome = "ok"
     THEN /\ quotesReq' = [quotesReq EXCEPT !.pc = "parsing"]
          /\ UNCHANGED loggerVars
     ELSE /\ quotesReq' = Caught(quotesReq, "quotes.fetch")
          /\ Logs(1)
          /\ UNCHANGED writesLeft
  /\ UNCHANGED <<fl, llmReq, weatherReq, jokesReq, sdk, otlp>>

\* quotes: lines 284-348.  response.json() rejects or no quote is received
\* (lines 284-289); or the quote has no text and quote.q.split throws in the
\* quotes.process span (line 302); or the handler answers 200.
QuotesParsed(body) ==
  /\ quotesReq.pc = "parsing"
  /\ quotesReq' =
       IF body \in {"invalidJson", "empty"}
       THEN Caught(quotesReq, "quotes.fetch")
       ELSE LET fetched == [quotesReq EXCEPT !.spans = @ \o
                              <<Status("quotes.api_call", "OK"),
                                Ended("quotes.api_call"),
                                Started("quotes.process")>>]
            IN IF body = "partial"
               THEN Caught(fetched, "quotes.fetch")
               ELSE Answered([fetched EXCEPT !.spans = @ \o
                                <<Status("quotes.process", "OK"),
                                  Ended("quotes.process"),
                                  Status("quotes.fetch", "OK")>>],
                             "quotes.fetch")
  /\ Logs(1)
  /\ UNCHANGED writesLeft
  /\ UNCHANGED <<fl, llmReq, weatherReq, jokesReq, sdk, otlp>>

\* The next request of a route: the finished one is forgotten.
LlmReset ==
  /\ llmReq.pc = "done"
  /\ llmReq' = RouteIdle
  /\ UNCHANGED <<loggerVars, fl, weatherReq, jokesReq, quotesReq, sdk, otlp>>

WeatherReset ==
  /\ weatherReq.pc = "done"
  /\ weatherReq' = RouteIdle
  /\ UNCHANGED <<loggerVars, fl, llmReq, jokesReq, quotesReq, sdk, otlp>>

JokesReset ==
  /\ jokesReq.pc = "done"
  /\ jokesReq' = RouteIdle
  /\ UNCHANGED <<loggerVars, fl, llmReq, weatherReq, quotesReq, sdk, otlp>>

QuotesReset ==
  /\ quotesReq.pc = "done"
  /\ quotesReq' = RouteIdle
  /\ UNCHANGED <<loggerVars, fl, llmReq, weatherReq, jokesReq, sdk, otlp>>

\* The requests of the traced routes held at the moment.
Held ==
  Cardinality({i \in 1..5 :
     <<fl, llmReq, weatherReq, jokesReq, quotesReq>>[i].pc # "idle"})

\* A request arrives while fewer than MaxRequests are held.
NextRoutes ==
  \/ /\ Held < MaxRequests
     /\ \E requested \in ScenarioInputs, prompt \in PromptInputs,
           pick \in 1..Len(SCENARIOS) : FailuresRequest(requested, prompt, pick)
  \/ FailuresValidated
  \/ FailuresSimulated
  \/ FailuresPostProcessed
  \/ FailuresReset
  \/ /\ Held < MaxRequests
     /\ \E prompt \in PromptInputs : LlmRequest(prompt)
  \/ LlmTokenized
  \/ LlmInferred
  \/ LlmDetokenized
  \/ LlmReset
  \/ /\ Held < MaxRequests
     /\ \E dev \in BOOLEAN : WeatherRequest(dev)
  \/ \E outcome \in FetchOutcomes : WeatherFetched(outcome)
  \/ \E body \in BodyKinds : WeatherParsed(body)
  \/ WeatherReset
  \/ /\ Held < MaxRequests
     /\ \E dev \in BOOLEAN : JokesRequest(dev)
  \/ \E outcome \in FetchOutcomes : JokesFetched(outcome)
  \/ \E body \in BodyKinds : JokesParsed(body)
  \/ JokesReset
  \/ /\ Held < MaxRequests
     /\ \E dev \in BOOLEAN : QuotesRequest(dev)
  \/ \E outcome \in FetchOutcomes : QuotesFetched(outcome)
  \/ \E body \in BodyKinds : QuotesParsed(body)
  \/ QuotesReset

\* ------------------------------------------------------- sdk-test.ts
\* DUCSIGR_API_KEY in the environment: not there, there and empty (env.ts
\* turns an empty string into undefined), or a key.
KeyInputs == {"unset", "empty", "value"}

\* config.ducsigr.apiKey is truthy.
apiKeyPresent(key) == key = "value"

\* The module's top level with the test of the key left out (mutant).
moduleLoad_noTest(key) == [sdkInitialized |-> TRUE, inits |-> 1]

\* Lines 14-25: Ducsigr.init is called and sdkInitialized set only with a key.
moduleLoad(key) ==
  IF apiKeyPresent(key)
  THEN [sdkInitialized |-> TRUE, inits |-> 1]
  ELSE [sdkInitialized |-> FALSE, inits |-> 0]

\* One request of an sdk-test route: where the handler is, the calls of
\* Ducsigr.observe and Ducsigr.flush it has made, its response.
SdkHandlerIdle ==
  [pc |-> "idle", observes |-> 0, flushes |-> 0, status |-> 0,
   success |-> FALSE]

SdkUnloaded ==
  [pc |-> "unloaded", key |-> "none", sdkInitialized |-> FALSE, inits |-> 0,
   test |-> SdkHandlerIdle, simple |-> SdkHandlerIdle]

\* Lines 35-38 and 184-187.
NotInitialized(h) ==
  [h EXCEPT !.pc = "done", !.status = 503, !.success = FALSE]

\* The calls of the SDK resolve or reject.
SdkOutcomes == {"resolve", "reject"}

\* Lines 166-175 and 212-219.
SdkCaught(h) == [h EXCEPT !.pc = "done", !.status = 500, !.success = FALSE]

SdkAnswered(h) == [h EXCEPT !.pc = "done", !.status = 200, !.success = TRUE]

\* The module is imported: lines 14-25, with logger.info or logger.warn.
SdkModuleLoad(key) ==
  /\ sdk.pc = "unloaded"
  /\ ~exited
  /\ writesLeft >= 1
  /\ writesLeft' = writesLeft - 1
  /\ LET loaded == moduleLoad(key)
     IN sdk' = [sdk EXCEPT !.pc = "loaded", !.key = key,
                           !.sdkInitialized = loaded.sdkInitialized,
                           !.inits = loaded.inits]
  /\ Logs(1)
  /\ UNCHANGED <<fl, llmReq, weatherReq, jokesReq, quotesReq, otlp>>

\* POST /api/demo/sdk-test, lines 34-84: 503, or the outer observe and the
\* observe of step 1 are called.  (The model's bound reserves the one log
\* line the request will write.)
SdkTestRequest ==
  /\ sdk.pc = "loaded"
  /\ sdk.test.pc = "idle"
  /\ IF sdk.sdkInitialized
     THEN /\ writesLeft >= 1
          /\ writesLeft' = writesLeft - 1
          /\ sdk' = [sdk EXCEPT !.test.pc = "step1", !.test.observes = 2]
     ELSE /\ sdk' = [sdk EXCEPT !.test = NotInitialized(@)]
          /\ UNCHANGED writesLeft
  /\ UNCHANGED <<logBuffer, flushTimer, timers, inflight, exported,
                 exportInverted, dropped, nWritten, ingestStable, overlap, sd,
                 server, exited, lastOp>>
  /\ UNCHANGED <<fl, llmReq, weatherReq, jokesReq, quotesReq, otlp>>

\* Lines 84-175: the awaited observe or flush settles.  A rejection goes to
\* the catch (logger.error, 500); otherwise the next step's observe is
\* called, then Ducsigr.flush, then logger.info and the 200.
SdkTestSettled(outcome) ==
  /\ sdk.test.pc \in {"step1", "step2", "step3", "flushing"}
  /\ IF outcome = "reject"
     THEN /\ sdk' = [sdk EXCEPT !.test = SdkCaught(@)]
          /\ Logs(1)
     ELSE IF sdk.test.pc = "flushing"
     THEN /\ sdk' = [sdk EXCEPT !.test = SdkAnswered(@)]
          /\ Logs(1)
     ELSE /\ sdk' =
               IF sdk.test.pc = "step1"
               THEN [sdk EXCEPT !.test.pc = "step2", !.test.observes = @ + 1]
               ELSE IF sdk.test.pc = "step2"
               THEN [sdk EXCEPT !.test.pc = "step3", !.test.observes = @ + 1]
               ELSE [sdk EXCEPT !.test.pc = "flushing", !.test.flushes = @ + 1]
          /\ UNCHANGED <<logBuffer, flushTimer, timers, inflight, exported,
                         exportInverted, dropped, nWritten, ingestStable,
                         overlap, sd, server, exited, lastOp>>
  /\ UNCHANGED writesLeft
  /\ UNCHANGED <<fl, llmReq, weatherReq, jokesReq, quotesReq, otlp>>

\* POST /api/demo/sdk-test/simple, lines 183-202: 503, or observe is called.
SdkSimpleRequest ==
  /\ sdk.pc = "loaded"
  /\ sdk.simple.pc = "idle"
  /\ sdk' = IF sdk.sdkInitialized
            THEN [sdk EXCEPT !.simple.pc = "observing", !.simple.observes = 1]
            ELSE [sdk EXCEPT !.simple = NotInitialized(@)]
  /\ UNCHANGED <<loggerVars, fl, llmReq, weatherReq, jokesReq, quotesReq, otlp>>

\* Lines 202-219.
SdkSimpleSettled(outcome) ==
  /\ sdk.simple.pc \in {"observing", "flushing"}
  /\ sdk' =
       IF outcome = "reject"
       THEN [sdk EXCEPT !.simple = SdkCaught(@)]
       ELSE IF sdk.simple.pc = "observing"
       THEN [sdk EXCEPT !.simple.pc = "flushing", !.simple.flushes = @ + 1]
       ELSE [sdk EXCEPT !.simple = SdkAnswered(@)]
  /\ UNCHANGED <<loggerVars, fl, llmReq, weatherReq, jokesReq, quotesReq, otlp>>

\* The next request of either route.
SdkTestReset ==
  /\ sdk.test.pc = "done"
  /\ sdk' = [sdk EXCEPT !.test = SdkHandlerIdle]
  /\ UNCHANGED <<loggerVars, fl, llmReq, weatherReq, jokesReq, quotesReq, otlp>>

SdkSimpleReset ==
  /\ sdk.simple.pc = "done"
  /\ sdk' = [sdk EXCEPT !.simple = SdkHandlerIdle]
  /\ UNCHANGED <<loggerVars, fl, llmReq, weatherReq, jokesReq, quotesReq, otlp>>

NextSdk ==
  \/ \E key \in KeyInputs : SdkModuleLoad(key)
  \/ SdkTestRequest
  \/ \E outcome \in SdkOutcomes : SdkTestSettled(outcome)
  \/ SdkSimpleRequest
  \/ \E outcome \in SdkOutcomes : SdkSimpleSettled(outcome)
  \/ SdkTestReset
  \/ SdkSimpleReset

\* ------------------------------------------- logger.ts: the OTLP payload
\* A JSON value of a log line is a record with its typeof in t: a string
\* [t, s]; a number [t, m, e] standing for m * 10^e with m not divisible by
\* 10 (42 is (42, 0), 1.5 is (15, -1), 1e21 is (1, 21)); a boolean [t, b];
\* null, an object or an array [t, str] with str what String() gives for it.
\* A log entry is the sequence of its <<key, value>> pairs (Object.entries);
\* the values of level and time are plain integers.
Str(s) == [t |-> "string", s |-> s]
Num(m, e) == [t |-> "number", m |-> m, e |-> e]
Bool(b) == [t |-> "boolean", b |-> b]
Other(str) == [t |-> "object", str |-> str]

Abs(n) == IF n < 0 THEN 0 - n ELSE n

DigitChars == <<"0", "1", "2", "3", "4", "5", "6", "7", "8", "9">>

\* The decimal digits of a non-negative integer, as a sequence of characters.
RECURSIVE Digits(_)
Digits(n) ==
  IF n < 10 THEN <<DigitChars[n + 1]>>
  ELSE Digits(n \div 10) \o <<DigitChars[(n % 10) + 1]>>

Zeros(n) == [i \in 1..n |-> "0"]

\* Number.isInteger(value).
isInteger(v) == v.m = 0 \/ v.e >= 0

\* String(value) for a number (Number::toString, radix 10): plain decimal
\* notation when the decimal point falls within 21 digits, a fraction with
\* up to six leading zeros, exponent notation otherwise.
NumberToString(v) ==
  LET digits == Digits(Abs(v.m))
      k == Len(digits)
      n == k + v.e
      sign == IF v.m < 0 THEN <<"-">> ELSE <<>>
      exponent == <<"e", IF n - 1 < 0 THEN "-" ELSE "+">> \o Digits(Abs(n - 1))
  IN IF v.m = 0 THEN <<"0">>
     ELSE sign \o
       (IF k <= n /\ n <= 21 THEN digits \o Zeros(n - k)
        ELSE IF 0 < n /\ n <= 21
        THEN SubSeq(digits, 1, n) \o <<".">> \o SubSeq(digits, n + 1, k)
        ELSE IF -6 < n /\ n <= 0
        THEN <<"0", ".">> \o Zeros(0 - n) \o digits
        ELSE IF k = 1 THEN digits \o exponent
        ELSE <<digits[1], ".">> \o SubSeq(digits, 2, k) \o exponent)

\* levelToSeverity with < where the source has <= (mutant).
levelToSeverity_strict(level) ==
  IF level < 10 THEN [severityNumber |-> 1, severityText |-> "TRACE"]
  ELSE IF level < 20 THEN [severityNumber |-> 5, severityText |-> "DEBUG"]
  ELSE IF level < 30 THEN [severityNumber |-> 9, severityText |-> "INFO"]
  ELSE IF level < 40 THEN [severityNumber |-> 13, severityText |-> "WARN"]
  ELSE IF level < 50 THEN [severityNumber |-> 17, severityText |-> "ERROR"]
  ELSE [severityNumber |-> 21, severityText |-> "FATAL"]

\* Lines 26-33.
levelToSeverity(level) ==
  IF level <= 10 THEN [severityNumber |-> 1, severityText |-> "TRACE"]
  ELSE IF level <= 20 THEN [severityNumber |-> 5, severityText |-> "DEBUG"]
  ELSE IF level <= 30 THEN [severityNumber |-> 9, severityText |-> "INFO"]
  ELSE IF level <= 40 THEN [severityNumber |-> 13, severityText |-> "WARN"]
  ELSE IF level <= 50 THEN [severityNumber |-> 17, severityText |-> "ERROR"]
  ELSE [severityNumber |-> 21, severityText |-> "FATAL"]

\* Lines 14-21.
PINO_TO_OTLP_SEVERITY ==
  [trace |-> 1, debug |-> 5, info |-> 9, warn |-> 13, error |-> 17,
   fatal |-> 21]

\* Lines 48-63.
toOtlpValue(value) ==
  IF value.t = "string" THEN [stringValue |-> value.s]
  ELSE IF value.t = "number"
  THEN (IF isInteger(value) THEN [intValue |-> NumberToString(value)]
        ELSE [doubleValue |-> value])
  ELSE IF value.t = "boolean" THEN [boolValue |-> value.b]
  ELSE [stringValue |-> value.str]

\* Line 70: the keys toOtlpAttributes leaves out.
ExcludedKeys == {"level", "time", "pid", "hostname", "msg", "name"}

\* Array.prototype.filter on the entries.
RECURSIVE filterEntries(_)
filterEntries(entries) ==
  IF entries = <<>> THEN <<>>
  ELSE (IF entries[1][1] \notin ExcludedKeys THEN <<entries[1]>> ELSE <<>>)
       \o filterEntries(Tail(entries))

\* Lines 68-75.
toOtlpAttributes(obj) ==
  LET kept == filterEntries(obj)
  IN [i \in 1..Len(kept) |->
        [key |-> kept[i][1], value |-> toOtlpValue(kept[i][2])]]

\* log[key]; undefined when the entry has no such key.
HasKey(log, key) == \E i \in 1..Len(log) : log[i][1] = key
Get(log, key) == log[CHOOSE i \in 1..Len(log) : log[i][1] = key][2]

\* Lines 123-133: one logRecord.
logRecord(log) ==
  LET severity == levelToSeverity(Get(log, "level"))
  IN [timeUnixNano |-> Digits(Get(log, "time") * 1000000),
      observedTimeUnixNano |-> "now",
      severityNumber |-> severity.severityNumber,
      severityText |-> severity.severityText,
      body |-> [stringValue |->
                  IF HasKey(log, "msg") /\ Get(log, "msg") # ""
                  THEN Get(log, "msg") ELSE ""],
      attributes |-> toOtlpAttributes(log)]

\* Lines 99-139.
formatOtlpPayload(logs) ==
  [resourceLogs |->
     << [resource |->
           [attributes |->
              << [key |-> "service.name",
                  value |-> [stringValue |-> "serviceName"]],
                 [key |-> "service.version",
                  value |-> [stringValue |-> "0.1.0"]] >>],
         scopeLogs |->
           << [scope |-> [name |-> "pino", version |-> "9.6.0"],
               logRecords |-> [i \in 1..Len(logs) |-> logRecord(logs[i])]] >>]
     >>]

OtlpIdle == [pc |-> "idle", logs |-> <<>>, payload |-> <<>>]

\* The levels of the entries: pino's six, their neighbours and custom ones.
LevelInputs == {0, 10, 11, 20, 21, 30, 31, 40, 41, 50, 51, 60, 70}

\* The values of an entry's own field: strings, integers (1.2e20 and 1e21
\* among them), non-integers, booleans, null and an object.
ValueInputs ==
  {Str("London"), Str(""), Num(42, 0), Num(-7, 0), Num(0, 0), Num(12, 19),
   Num(1, 21), Num(15, -1), Num(5, -7), Bool(TRUE), Bool(FALSE),
   Other("null"), Other("[object Object]")}

\* What comes between the logger's own fields and msg in a line.
ExtraInputs == {<<>>} \cup {<< <<"value", v>> >> : v \in ValueInputs}

\* logger.info(obj) writes no msg, logger.info(obj, "...") does.
MsgInputs == {<<>>, << <<"msg", "Weather request received">> >>}

\* One line as pino writes it and JSON.parse reads it.
Log(level, extra, msg) ==
  << <<"level", level>>, <<"time", 5>>, <<"pid", Num(1, 0)>>,
     <<"hostname", Str("host")>>, <<"name", Str("ducsigr-demo")>>,
     <<"service", Str("ducsigr-demo")>> >> \o extra \o msg

LogInputs ==
  {Log(level, <<>>, << <<"msg", "Server closed">> >>) : level \in LevelInputs}
  \cup {Log(30, extra, msg) : extra \in ExtraInputs, msg \in MsgInputs}

BatchInputs == UNION {[1..n -> LogInputs] : n \in 0..MaxOtlpBatch}

\* flushLogs, line 148: the batch is formatted.
OtlpFormat(logs) ==
  /\ otlp.pc = "idle"
  /\ otlp' = [pc |-> "formatted", logs |-> logs,
              payload |-> formatOtlpPayload(logs)]
  /\ UNCHANGED <<loggerVars, fl, llmReq, weatherReq, jokesReq, quotesReq, sdk>>

\* The next batch.
OtlpReset ==
  /\ otlp.pc = "formatted"
  /\ otlp' = OtlpIdle
  /\ UNCHANGED <<loggerVars, fl, llmReq, weatherReq, jokesReq, quotesReq, sdk>>

NextOtlp ==
  \/ /\ otlp.pc = "idle"
     /\ \E logs \in BatchInputs : OtlpFormat(logs)
  \/ OtlpReset

\* ---------------------------------------------------------------- Init
InitWith(budget) ==
  /\ logBuffer = <<>>
  /\ flushTimer = NULL
  /\ timers = 0
  /\ inflight = {}
  /\ exported = {}
  /\ exportInverted = FALSE
  /\ dropped = {}
  /\ nWritten = 0
  /\ writesLeft = budget
  /\ ingestStable = FALSE
  /\ overlap = FALSE
  /\ sd = <<>>
  /\ server = "listening"
  /\ exited = FALSE
  /\ lastOp = "init"
  /\ fl = FlIdle
  /\ llmReq = RouteIdle
  /\ weatherReq = RouteIdle
  /\ jokesReq = RouteIdle
  /\ quotesReq = RouteIdle
  /\ sdk = SdkUnloaded
  /\ otlp = OtlpIdle

Init == InitWith(MaxWrites)

InitShutdown == InitWith(MaxShutdownWrites)

InitFair == InitWith(MaxFairWrites)

InitRoutes == InitWith(MaxRouteWrites)

InitSdk == InitWith(MaxSdkWrites)

\* ------------------------------------------------------------- actions
\* The application logs one entry: pino hands the line to write().
Write ==
  /\ ~exited
  /\ writesLeft > 0
  /\ LET st == write(Cur, nWritten + 1)
     IN /\ Apply(st)
        /\ lastOp' = IF st.awaited # <<>> THEN "writeFlush" ELSE "write"
  /\ nWritten' = nWritten + 1
  /\ writesLeft' = writesLeft - 1
  /\ UNCHANGED <<exported, exportInverted, dropped, ingestStable, sd, server,
                 exited>>
  /\ UNCHANGED <<fl, routeVars>>

\* write() with a line JSON.parse rejects: the catch only prints.
WriteUnparseable ==
  /\ ~exited
  /\ UNCHANGED vars

\* The setTimeout callback of scheduleFlush.
TimerFire ==
  /\ ~exited
  /\ timers > 0
  /\ LET st == flushLogs([Cur EXCEPT !.flushTimer = NULL, !.timers = @ - 1])
     IN /\ Apply(st)
        /\ lastOp' = IF st.awaited # <<>> THEN "timerFlush" ELSE "timerNoop"
  /\ UNCHANGED <<exported, exportInverted, dropped, nWritten, writesLeft,
                 ingestStable, sd, server, exited>>
  /\ UNCHANGED <<fl, routeVars>>

\* The export of b succeeds: fetch resolves with response.ok, flushLogs
\* returns and nothing is put back.
ExportOk(b) ==
  /\ ~exited
  /\ b \in inflight
  /\ inflight' = inflight \ {b}
  /\ exported' = exported \cup Range(b)
  /\ exportInverted' =
       (exportInverted \/ \E a \in Range(b), x \in exported : a < x)
  /\ sd' = Resume(b, "ok")
  /\ server' = ServerAfter(sd')
  /\ lastOp' = "exportOk"
  /\ UNCHANGED <<logBuffer, flushTimer, timers, dropped, nWritten, writesLeft,
                 ingestStable, overlap, exited>>
  /\ UNCHANGED <<fl, routeVars>>

\* The export of b fails: fetch rejects (the catch), or it resolves with a
\* non-OK response and response.text() has settled.  Nothing of the logger's
\* state changes between those two awaits, so they are one step here.
ExportFailed(b) ==
  /\ ~exited
  /\ ~ingestStable
  /\ b \in inflight
  /\ inflight' = inflight \ {b}
  /\ logBuffer' = requeue(logBuffer, b)
  /\ \/ /\ Len(logBuffer) < REQUEUE_LIMIT
        /\ dropped' = dropped
        /\ lastOp' = "requeue"
     \/ /\ Len(logBuffer) >= REQUEUE_LIMIT
        /\ dropped' = dropped \cup Range(b)
        /\ lastOp' = "drop"
  /\ sd' = Resume(b, "failed")
  /\ server' = ServerAfter(sd')
  /\ UNCHANGED <<flushTimer, timers, exported, exportInverted, nWritten,
                 writesLeft, ingestStable, overlap, exited>>
  /\ UNCHANGED <<fl, routeVars>>

\* Environment: from now on the ingest endpoint accepts every request.
IngestStabilises ==
  /\ ~exited
  /\ ~ingestStable
  /\ ingestStable' = TRUE
  /\ UNCHANGED <<logBuffer, flushTimer, timers, inflight, exported,
                 exportInverted, dropped, nWritten, writesLeft, overlap, sd,
                 server, exited, lastOp>>
  /\ UNCHANGED <<fl, routeVars>>

\* SIGINT or SIGTERM: shutdown() logs, calls flushPendingLogs and, when the
\* flush promise is already settled, goes on to server.close.
Signal ==
  /\ ~exited
  /\ Len(sd) < MaxSignals
  /\ LET logged == write(Cur, nWritten + 1)
         st == flushPendingLogs(logged)
         me == [pc |-> shutdownStep(st.awaited = <<>>),
                settled |-> (st.awaited = <<>>),
                batch |-> st.awaited,
                result |-> IF st.awaited = <<>> THEN "none" ELSE "pending",
                at |-> nWritten + 1]
     IN /\ Apply(st)
        /\ sd' = Append(sd, me)
        /\ server' = ServerAfter(sd')
  /\ nWritten' = nWritten + 1
  /\ lastOp' = "signal"
  /\ UNCHANGED <<exported, exportInverted, dropped, writesLeft, ingestStable,
                 exited>>
  /\ UNCHANGED <<fl, routeVars>>

\* The server's 'close' event runs the first server.close callback: it logs
\* "Server closed" and calls process.exit(0).
ServerClosed ==
  /\ ~exited
  /\ server = "closing"
  /\ LET st == write(Cur, nWritten + 1)
     IN Apply(st)
  /\ nWritten' = nWritten + 1
  /\ server' = "closed"
  /\ exited' = TRUE
  /\ lastOp' = "closed"
  /\ UNCHANGED <<exported, exportInverted, dropped, writesLeft, ingestStable,
                 sd>>
  /\ UNCHANGED <<fl, routeVars>>

NextLogger ==
  \/ Write
  \/ WriteUnparseable
  \/ TimerFire
  \/ \E b \in inflight : ExportOk(b)
  \/ \E b \in inflight : ExportFailed(b)

NextShutdown ==
  \/ NextLogger
  \/ Signal
  \/ ServerClosed

\* The logger under the application's writes, timers and exports.
Spec == Init /\ [][NextLogger]_vars

\* The logger together with the signal handlers of index.ts.
SpecShutdown == InitShutdown /\ [][NextShutdown]_vars

\* The logger with an ingest endpoint that ends up accepting every request,
\* timers that fire and fetches that settle.
NextFair ==
  \/ NextLogger
  \/ IngestStabilises

\* POST /api/demo/failures, one request after the other.
SpecFailures == Init /\ [][NextFailures]_vars

\* The five traced routes, requests of different routes overlapping.
SpecRoutes == InitRoutes /\ [][NextRoutes]_vars

\* The sdk-test module from its import on.
SpecSdk == InitSdk /\ [][NextSdk]_vars

\* formatOtlpPayload on batches of entries.
SpecOtlp == Init /\ [][NextOtlp]_vars

FairSpec ==
  /\ InitFair
  /\ [][NextFair]_vars
  /\ WF_vars(TimerFire)
  /\ WF_vars(\E b \in inflight : ExportOk(b))
  /\ WF_vars(IngestStabilises)

\* =============================================================== claims
\* Helpers of the formulas below.
WriteStep == nWritten' = nWritten + 1
Pushed == Append(logBuffer, nWritten + 1)
BufferInverted ==
  \E i, j \in 1..Len(logBuffer) : i < j /\ logBuffer[i] > logBuffer[j]

\* C1 as stated: the buffer never holds more than the limit (500 in the
\* source) entries.  Violated: the limit is tested before the batch is put
\* back, so the buffer grows past it.
C1_NeverAboveLimit == Len(logBuffer) <= REQUEUE_LIMIT

\* C1 amended: whenever a logger operation has returned, the buffer holds at
\* most REQUEUE_LIMIT - 1 + MAX_BATCH_SIZE entries (549 in the source).
C1_NeverAboveLimitPlusBatch ==
  Len(logBuffer) <= REQUEUE_LIMIT - 1 + MAX_BATCH_SIZE

\* A failed export has just been put back and the buffer is at that maximum.
C1_Witness ==
  lastOp = "requeue" /\ Len(logBuffer) = REQUEUE_LIMIT - 1 + MAX_BATCH_SIZE

\* C2: with an endpoint that ends up accepting every request, timers that
\* fire and fetches that settle, every entry written is eventually exported
\* by a successful request or dropped at the limit, also when nothing is
\* written after a failed export.
C2_EveryEntryDelivered ==
  \A e \in 1..MaxFairWrites :
    (e <= nWritten) ~> (e \in exported \/ e \in dropped)

\* C3: flushPendingLogs leaves flushTimer null, and when the export it
\* performs succeeds and nothing was written since the call, the buffer is
\* empty at the moment its promise resolves.
C3_FlushPendingEmptiesBuffer ==
  [][/\ lastOp' = "signal" => flushTimer' = NULL
     /\ \A i \in DOMAIN sd :
          (/\ sd[i].pc = "awaitFlush"
           /\ sd'[i].pc = "closeCalled"
           /\ sd'[i].result = "ok"
           /\ nWritten' = sd[i].at)
          => logBuffer' = <<>>]_vars

\* C4: a write after which the buffer holds MAX_BATCH_SIZE or more entries
\* starts a flush itself: the first min(MAX_BATCH_SIZE, length) entries have
\* left the buffer and are in flight when the write returns, and the write
\* schedules no timer.
C4_FlushOnSize ==
  [][(WriteStep /\ Len(Pushed) >= MAX_BATCH_SIZE) =>
       /\ logBuffer' = SubSeq(Pushed, Min(MAX_BATCH_SIZE, Len(Pushed)) + 1,
                              Len(Pushed))
       /\ inflight' =
            inflight \cup {SubSeq(Pushed, 1, Min(MAX_BATCH_SIZE, Len(Pushed)))}
       /\ flushTimer' = flushTimer
       /\ timers' = timers]_vars

\* A write has just flushed on size with no timer pending, and the buffer was
\* longer than one batch.
C4_Witness ==
  lastOp = "writeFlush" /\ timers = 0 /\ logBuffer # <<>>

\* C5: after a write that leaves the buffer with fewer than MAX_BATCH_SIZE
\* entries a flush timer is pending, and never more than one timer is pending.
\* (Stated for a write that leaves entries in the buffer: with an empty buffer
\* there is nothing a timer would flush.)
C5_TimerPendingAfterWrite ==
  /\ timers <= 1
  /\ (/\ lastOp \in {"write", "writeFlush"}
      /\ logBuffer # <<>>
      /\ Len(logBuffer) < MAX_BATCH_SIZE)
     => (timers = 1 /\ flushTimer # NULL)

\* C6: every request carries between 1 and MAX_BATCH_SIZE entries, which are
\* the front of the buffer at the time of the flush; flushLogs on an empty
\* buffer (here: the timer callback's) sends nothing and leaves the buffer
\* alone.
C6_FixedSizeBatch ==
  [][/\ \A b \in inflight' : Len(b) \in 1..MAX_BATCH_SIZE
     /\ ~(inflight' \subseteq inflight) =>
          \E b \in inflight' \ inflight :
            /\ inflight' = inflight \cup {b}
            /\ b \o logBuffer' = (IF WriteStep THEN Pushed ELSE logBuffer)
     /\ (timers' < timers /\ logBuffer = <<>>) =>
          (inflight' = inflight /\ logBuffer' = logBuffer)]_vars

\* The timer has fired on a buffer that a size-triggered flush had emptied.
C6_Witness ==
  /\ lastOp = "timerNoop"
  /\ logBuffer = <<>>
  /\ \E b \in inflight : Len(b) = MAX_BATCH_SIZE

\* C7: when the export of batch b fails with fewer than REQUEUE_LIMIT entries
\* in the buffer, b is put back in front of the buffer in its order; with
\* REQUEUE_LIMIT or more, b is dropped and the buffer is unchanged; when the
\* export succeeds the buffer is unchanged.
C7_RequeueOnFailure ==
  [][\A b \in inflight :
       (inflight' = inflight \ {b}) =>
         IF exported' # exported
         THEN logBuffer' = logBuffer /\ dropped' = dropped
         ELSE IF Len(logBuffer) < REQUEUE_LIMIT
              THEN logBuffer' = b \o logBuffer /\ dropped' = dropped
              ELSE logBuffer' = logBuffer
                   /\ dropped' = dropped \cup Range(b)]_vars

\* A batch has just been dropped at the limit, which earlier re-queues had
\* filled the buffer up to.
C7_Witness ==
  lastOp = "drop" /\ Len(logBuffer) >= REQUEUE_LIMIT /\ dropped # {}

\* C8: exports can be out of write order, and only where two exports were in
\* flight at once: an entry sits behind a later one in the buffer, or is
\* delivered by a later request than a later entry, only after an overlap.
C8_InversionNeedsOverlap ==
  (BufferInverted \/ exportInverted) => overlap

\* An entry has been delivered by a later request than an entry written after
\* it.
C8_Witness == exportInverted

\* C9: server.close is called by a shutdown() only after its flush has
\* settled, and the process exits only in the close callback: after the
\* server has closed and the flush of the invocation that closed it settled.
C9_ShutdownOrder ==
  /\ \A i \in DOMAIN sd : sd[i].pc = "closeCalled" => sd[i].settled
  /\ server # "listening" =>
       \E i \in DOMAIN sd : sd[i].pc = "closeCalled" /\ sd[i].settled
  /\ exited =>
       /\ server = "closed"
       /\ \E i \in DOMAIN sd : sd[i].pc = "closeCalled" /\ sd[i].settled

\* The process has exited after a shutdown() that had to wait for an export.
C9_Witness ==
  exited /\ \E i \in DOMAIN sd : sd[i].result \in {"ok", "failed"}

\* C10: the answer of POST /api/demo/failures follows the scenario:
\* hallucination gives 200 with success, a warning and a confidenceScore;
\* auth-failure 401, rate-limit 429, the other three 500; every non-200 answer
\* has success=false and an error; the scenario answered is one of the six,
\* and is the requested one when that is one of the six.
ExpectedStatus(scenario) ==
  IF scenario = "hallucination" THEN 200
  ELSE IF scenario = "auth-failure" THEN 401
  ELSE IF scenario = "rate-limit" THEN 429
  ELSE 500

C10_StatusFollowsScenario ==
  fl.pc = "done" =>
    /\ fl.response.scenario \in Range(SCENARIOS)
    /\ fl.requested \in Range(SCENARIOS) => fl.response.scenario = fl.requested
    /\ fl.response.status = ExpectedStatus(fl.response.scenario)
    /\ fl.response.status = 200 =>
         /\ fl.response.success
         /\ fl.response.warning
         /\ fl.response.confidenceScore
    /\ fl.response.status # 200 =>
         /\ ~fl.response.success
         /\ fl.response.error

\* C11: in POST /api/demo/failures the spans follow one order for every
\* scenario: failures.simulate starts first; failures.validate-input starts
\* and ends with status OK; then failures.llm-call starts and is ended once,
\* with status OK only for hallucination; failures.post-process is started if
\* and only if the scenario is hallucination and ends with status OK;
\* failures.simulate is ended last, with status ERROR if and only if the
\* scenario result carries an error.
ExpectedSpans(scenario) ==
  <<Started("failures.simulate"),
    Started("failures.validate-input"),
    Status("failures.validate-input", "OK"),
    Ended("failures.validate-input"),
    Started("failures.llm-call"),
    Status("failures.llm-call",
           IF scenario = "hallucination" THEN "OK" ELSE "ERROR"),
    Ended("failures.llm-call")>>
  \o (IF scenario = "hallucination"
      THEN <<Started("failures.post-process"),
             Status("failures.post-process", "OK"),
             Ended("failures.post-process")>>
      ELSE <<>>)
  \o <<Status("failures.simulate",
              IF scenario = "hallucination" THEN "OK" ELSE "ERROR"),
       <<"respond">>,
       Ended("failures.simulate")>>

C11_SpanOrder ==
  fl.pc = "done" => fl.spans = ExpectedSpans(fl.scenario)

\* C12: POST /api/demo/llm produces the documented trace structure:
\* llm.generate starts first, then llm.tokenize, llm.infer and llm.detokenize
\* run strictly one after another, each ended with status OK before the next
\* is started, and llm.generate is ended exactly once, after all three
\* children have ended.
Occurrences(seq, x) == Cardinality({i \in 1..Len(seq) : seq[i] = x})

LlmChildren ==
  <<Started("llm.generate"),
    Started("llm.tokenize"), Status("llm.tokenize", "OK"),
    Ended("llm.tokenize"),
    Started("llm.infer"), Status("llm.infer", "OK"), Ended("llm.infer"),
    Started("llm.detokenize"), Status("llm.detokenize", "OK"),
    Ended("llm.detokenize")>>

C12_LlmTraceStructure ==
  llmReq.pc = "done" =>
    /\ Len(llmReq.spans) > Len(LlmChildren)
    /\ SubSeq(llmReq.spans, 1, Len(LlmChildren)) = LlmChildren
    /\ Occurrences(llmReq.spans, Ended("llm.generate")) = 1
    /\ llmReq.spans[Len(llmReq.spans)] = Ended("llm.generate")

\* C13: when DUCSIGR_API_KEY is not set the SDK is never initialised and
\* every request to POST /api/demo/sdk-test and /sdk-test/simple answers 503
\* with success=false without calling Ducsigr.observe or Ducsigr.flush; when
\* the key is set the SDK is initialised exactly once, at module load, and the
\* routes never answer 503.
SdkHandlers == {sdk.test, sdk.simple}

PinoLevels ==
  [trace |-> 10, debug |-> 20, info |-> 30, warn |-> 40, error |-> 50,
   fatal |-> 60]

ThresholdSeverity(level) ==
  CASE level <= 10 -> <<1, "TRACE">>
    [] level > 10 /\ level <= 20 -> <<5, "DEBUG">>
    [] level > 20 /\ level <= 30 -> <<9, "INFO">>
    [] level > 30 /\ level <= 40 -> <<13, "WARN">>
    [] level > 40 /\ level <= 50 -> <<17, "ERROR">>
    [] level > 50 -> <<21, "FATAL">>

LogRecords == otlp.payload.resourceLogs[1].scopeLogs[1].logRecords

C14_SeverityByThreshold ==
  otlp.pc = "formatted" =>
    \A i \in 1..Len(otlp.logs) :
      LET level == Get(otlp.logs[i], "level")
          r == LogRecords[i]
      IN /\ <<r.severityNumber, r.severityText>> = ThresholdSeverity(level)
         /\ \A j \in 1..Len(otlp.logs) :
              level <= Get(otlp.logs[j], "level") =>
                r.severityNumber <= LogRecords[j].severityNumber
         /\ \A name \in DOMAIN PinoLevels :
              level = PinoLevels[name] =>
                r.severityNumber = PINO_TO_OTLP_SEVERITY[name]

\* A batch with an entry at pino's level 50 and one just above it has been
\* formatted.
C14_Witness ==
  /\ otlp.pc = "formatted"
  /\ Len(otlp.logs) = 2
  /\ Get(otlp.logs[1], "level") = 50
  /\ Get(otlp.logs[2], "level") = 51
  /\ LogRecords[1].severityText = "ERROR"
  /\ LogRecords[2].severityText = "FATAL"

\* C15: formatOtlpPayload emits exactly one logRecord per entry of the batch,
\* in batch order, inside one resourceLogs element with one scopeLogs
\* element; each record's attributes contain every key of the entry except
\* level, time, pid, hostname, msg and name; each attribute value has exactly
\* one field set: stringValue for strings, intValue as a decimal string for
\* integers, doubleValue for non-integer numbers, boolValue for booleans,
\* stringValue of String(value) otherwise.
IsDecimalString(str) ==
  /\ Len(str) >= 1
  /\ \A i \in 1..Len(str) :
       \/ str[i] \in Range(DigitChars)
       \/ i = 1 /\ str[i] = "-" /\ Len(str) > 1

ValueAsStated(v, out) ==
  /\ Cardinality(DOMAIN out) = 1
  /\ IF v.t = "string"
     THEN DOMAIN out = {"stringValue"} /\ out.stringValue = v.s
     ELSE IF v.t = "number" /\ isInteger(v)
     THEN DOMAIN out = {"intValue"} /\ IsDecimalString(out.intValue)
     ELSE IF v.t = "number"
     THEN DOMAIN out = {"doubleValue"} /\ out.doubleValue = v
     ELSE IF v.t = "boolean"
     THEN DOMAIN out = {"boolValue"} /\ out.boolValue = v.b
     ELSE DOMAIN out = {"stringValue"} /\ out.stringValue = v.str

C15_DirectFieldMapping ==
  otlp.pc = "formatted" =>
    /\ Len(otlp.payload.resourceLogs) = 1
    /\ Len(otlp.payload.resourceLogs[1].scopeLogs) = 1
    /\ Len(LogRecords) = Len(otlp.logs)
    /\ \A i \in 1..Len(otlp.logs) :
         LET log == otlp.logs[i]
             r == LogRecords[i]
         IN /\ r.severityNumber = ThresholdSeverity(Get(log, "level"))[1]
            /\ r.body.stringValue =
                 (IF HasKey(log, "msg") THEN Get(log, "msg") ELSE "")
            /\ {r.attributes[a].key : a \in 1..Len(r.attributes)} =
                 {log[x][1] : x \in 1..Len(log)}
                   \ {"level", "time", "pid", "hostname", "msg", "name"}
            /\ \A a \in 1..Len(r.attributes) :
                 ValueAsStated(Get(log, r.attributes[a].key),
                               r.attributes[a].value)

\* C16: each of the handlers for weather, jokes, quotes, llm and failures
\* ends its root span exactly once on every path, success or error, after the
\* span status has been set to OK or ERROR and after the single HTTP response
\* has been issued (so the end is the last of the handler's calls, and there
\* is none before the handler is done); on the error path, the one through
\* the catch block, the response is 500 with success=false.
RootEndedOnce(pc, spans, root) ==
  IF pc = "done"
  THEN /\ Occurrences(spans, Ended(root)) = 1
       /\ spans[Len(spans)] = Ended(root)
       /\ Occurrences(spans, <<"respond">>) = 1
       /\ \E i \in 1..Len(spans) :
            spans[i] \in {Status(root, "OK"), Status(root, "ERROR")}
  ELSE /\ Occurrences(spans, Ended(root)) = 0
       /\ Occurrences(spans, <<"respond">>) = 0

TracedRoutes ==
  {<<llmReq, "llm.generate">>, <<weatherReq, "weather.fetch">>,
   <<jokesReq, "jokes.fetch">>, <<quotesReq, "quotes.fetch">>}

InFlightEntries == UNION {Range(b) : b \in inflight}

C17_SequentialExportsInOrder ==
  ~overlap =>
    /\ ~exportInverted
    /\ \A i, j \in 1..Len(logBuffer) : i < j => logBuffer[i] < logBuffer[j]
    /\ \A x \in InFlightEntries, y \in Range(logBuffer) : x < y
    /\ \A e \in exported, x \in InFlightEntries \cup Range(logBuffer) : e < x

\* With never more than one export in flight, a failed batch has just been
\* put back in front of entries written after it, after an earlier batch was
\* delivered.
C17_Witness ==
  /\ ~overlap
  /\ lastOp = "requeue"
  /\ exported # {}
  /\ Len(logBuffer) > MAX_BATCH_SIZE

====
